---- MODULE Spec2Model ----
(***************************************************************************)
(* Model of the casting cost estimator (streamlit_app.py).                 *)
(*                                                                         *)
(* The cost engine is a pipeline of pure calculators over a parameter      *)
(* record of Python floats.  Every arithmetic operation of the code is one *)
(* correctly rounded binary64 operation of the model, in the code's order. *)
(***************************************************************************)
EXTENDS Integers, Sequences, FiniteSets, TLC

VARIABLES form, params, result,
          session_state,    \* st.session_state: the keys 'density' and 'prev_metal'
          density_default,  \* the value= offered to the density input in the last run
          stored_before     \* history: session_state at the start of the last run, once initialised

vars == <<form, params, result, session_state, density_default, stored_before>>

(***************************************************************************)
(* Bounds of the explored inputs.                                          *)
(***************************************************************************)
MaxQuantity == 2
MaxUnitCost == 2

(***************************************************************************)
(* Python float arithmetic: IEEE 754 binary64, round to nearest, ties to   *)
(* even.  A float is a record [k, s, m, e]: kind k ("fin", "inf", "nan"),  *)
(* sign s (0 or 1), and for a finite value the magnitude m * 2^e, m an     *)
(* integer below 2^53 written as four limbs of 14 bits, least significant  *)
(* first.  Finite values are kept canonical: m has 53 bits and             *)
(* -1074 <= e <= 971, or m has fewer bits and e = -1074 (subnormal), or    *)
(* m = 0 and e = 0.  The kind "raised" stands for "the expression raised   *)
(* ZeroDivisionError" and propagates through every operation, as the       *)
(* exception propagates out of the enclosing expression.                   *)
(***************************************************************************)
LimbBase == 2^14

P2 == [j \in 0..30 |-> 2^j]

Z4 == <<0, 0, 0, 0>>

Abs(x) == IF x < 0 THEN -x ELSE x

Limb(x, i) == IF i >= 1 /\ i <= Len(x) THEN x[i] ELSE 0

\* Number of bits of a limb value below 2^14 (0 for 0).
LimbBits(v) == IF v = 0 THEN 0 ELSE CHOOSE b \in 1..14 : P2[b - 1] <= v /\ v < P2[b]

RECURSIVE TopLimb(_, _)
TopLimb(x, i) == IF i = 0 THEN 0 ELSE IF x[i] # 0 THEN i ELSE TopLimb(x, i - 1)

\* Number of bits of an integer whose highest non-zero limb is limb t.
BitLenFrom(x, t) == IF t = 0 THEN 0 ELSE 14 * (t - 1) + LimbBits(x[t])

\* Number of bits of the integer written by the limbs x (0 for 0).
BitLen(x) == BitLenFrom(x, TopLimb(x, Len(x)))

\* Bit j (from 0) of x.
BitAt(x, j) == (Limb(x, (j \div 14) + 1) \div P2[j % 14]) % 2

\* Some bit of x below bit j is set.
LowBitsSet(x, j) ==
    \/ \E i \in 1..(j \div 14) : Limb(x, i) # 0
    \/ Limb(x, (j \div 14) + 1) % P2[j % 14] # 0

\* Limb i of x shifted right by 14*q + r bits.
ShrLimb(x, q, r, i) ==
    (Limb(x, i + q) \div P2[r]) + (Limb(x, i + q + 1) % P2[r]) * P2[14 - r]

\* Limb i of x shifted left by 14*q + r bits.
ShlLimb(x, q, r, i) ==
    (Limb(x, i - q) % P2[14 - r]) * P2[r] + (Limb(x, i - q - 1) \div P2[14 - r])

ShiftRight4(x, j) == [i \in 1..4 |-> ShrLimb(x, j \div 14, j % 14, i)]

ShiftLeft4(x, j) == [i \in 1..4 |-> ShlLimb(x, j \div 14, j % 14, i)]

ShiftLeft9(x, j) == [i \in 1..9 |-> ShlLimb(x, j \div 14, j % 14, i)]

\* x + y + carry from limb i on, as many limbs as x has.
RECURSIVE AddLimbs(_, _, _, _)
AddLimbs(x, y, i, carry) ==
    IF i > Len(x) THEN <<>>
    ELSE <<(x[i] + Limb(y, i) + carry) % LimbBase>>
         \o AddLimbs(x, y, i + 1, (x[i] + Limb(y, i) + carry) \div LimbBase)

\* x - y - borrow from limb i on, for x >= y.
RECURSIVE SubLimbs(_, _, _, _)
SubLimbs(x, y, i, borrow) ==
    IF i > Len(x) THEN <<>>
    ELSE IF x[i] - Limb(y, i) - borrow < 0
         THEN <<x[i] - Limb(y, i) - borrow + LimbBase>> \o SubLimbs(x, y, i + 1, 1)
         ELSE <<x[i] - Limb(y, i) - borrow>> \o SubLimbs(x, y, i + 1, 0)

\* -1, 0 or 1 as x is below, equal to or above y, comparing limbs i..1.
RECURSIVE CmpLimbs(_, _, _)
CmpLimbs(x, y, i) ==
    IF i = 0 THEN 0
    ELSE IF Limb(x, i) < Limb(y, i) THEN -1
    ELSE IF Limb(x, i) > Limb(y, i) THEN 1
    ELSE CmpLimbs(x, y, i - 1)

\* Column n of the product of two four-limb integers: the sum of the
\* products of the limbs whose positions add up to n + 1.
RECURSIVE MulColumn(_, _, _, _)
MulColumn(a, b, n, i) ==
    IF i > 4 THEN 0
    ELSE (IF n + 1 - i >= 1 /\ n + 1 - i <= 4 THEN a[i] * b[n + 1 - i] ELSE 0)
         + MulColumn(a, b, n, i + 1)

\* The limbs n..8 of the product, given the carry into column n.
RECURSIVE MulFrom(_, _, _, _)
MulFrom(a, b, n, carry) ==
    IF n > 8 THEN <<>>
    ELSE <<(MulColumn(a, b, n, 1) + carry) % LimbBase>>
         \o MulFrom(a, b, n + 1, (MulColumn(a, b, n, 1) + carry) \div LimbBase)

\* The product of two four-limb integers, eight limbs.
MulLimbs(a, b) == MulFrom(a, b, 1, 0)

NaN == [k |-> "nan", s |-> 0, m |-> Z4, e |-> 0]

Inf(s) == [k |-> "inf", s |-> s, m |-> Z4, e |-> 0]

SignedZero(s) == [k |-> "fin", s |-> s, m |-> Z4, e |-> 0]

Raised == [k |-> "raised", s |-> 0, m |-> Z4, e |-> 0]

IsRaised(a) == a.k = "raised"

IsNaN(a) == a.k = "nan"

IsZero(a) == a.k = "fin" /\ a.m = Z4

IsFinite(a) == a.k = "fin"

\* The float of sign s, significand m and exponent e: inf when the
\* exponent is beyond the largest.
Finite(s, m, e) ==
    IF e > 971 THEN Inf(s) ELSE [k |-> "fin", s |-> s, m |-> m, e |-> e]

\* A significand that a rounding carried to 2^53 is halved.
Pack(s, m, e) ==
    IF m = Z4 THEN SignedZero(s)
    ELSE IF m[4] >= P2[11] THEN Finite(s, ShiftRight4(m, 1), e + 1)
    ELSE Finite(s, m, e)

\* Round to nearest, ties to even: kept is x without its low bits, half
\* the first bit dropped, rest whether a lower bit is set.
RoundKept(s, kept, half, rest, e) ==
    IF half = 1 /\ (rest \/ kept[1] % 2 = 1)
    THEN Pack(s, AddLimbs(kept, <<1>>, 1, 0), e)
    ELSE Pack(s, kept, e)

\* x * 2^e with the low shift bits of x rounded away (shift > 0) or with x
\* shifted left (shift <= 0).
RoundBy(s, x, e, shift) ==
    IF shift > 0
    THEN RoundKept(s, ShiftRight4(x, shift), BitAt(x, shift - 1),
                   LowBitsSet(x, shift - 1), e + shift)
    ELSE Pack(s, ShiftLeft4(x, -shift), e + shift)

\* 53 bits are kept, fewer when the exponent would fall below -1074.
RoundLen(s, x, e, len) ==
    IF len = 0 THEN SignedZero(s)
    ELSE RoundBy(s, x, e, IF e + (len - 53) < -1074 THEN -1074 - e ELSE len - 53)

\* The float nearest to (-1)^s * x * 2^e, x an integer written in limbs.
RoundPack(s, x, e) == RoundLen(s, x, e, BitLen(x))

\* float(i) for an integer i.
R(i) ==
    RoundPack(IF i < 0 THEN 1 ELSE 0,
              <<Abs(i) % LimbBase, (Abs(i) \div LimbBase) % LimbBase,
                Abs(i) \div (LimbBase * LimbBase), 0>>, 0)

Zero == SignedZero(0)

Neg(a) == IF a.k \in {"raised", "nan"} THEN a ELSE [a EXCEPT !.s = 1 - a.s]

\* |x - y| * 2^e with the sign of the larger, c comparing x with y.
SubOrdered(sx, x, sy, y, e, c) ==
    IF c = 0 THEN SignedZero(0)
    ELSE RoundPack(IF c > 0 THEN sx ELSE sy,
                   IF c > 0 THEN SubLimbs(x, y, 1, 0) ELSE SubLimbs(y, x, 1, 0), e)

\* The sum of (-1)^sx * x * 2^e and (-1)^sy * y * 2^e, rounded once.
AddMagnitudes(sx, x, sy, y, e) ==
    IF sx = sy THEN RoundPack(sx, AddLimbs(x, y, 1, 0), e)
    ELSE SubOrdered(sx, x, sy, y, e, CmpLimbs(x, y, 9))

\* hi + lo for finite non-zero floats with hi.e >= lo.e: hi is shifted to
\* the exponent of lo; a lo more than 60 bits below only leaves a sticky
\* bit under three guard bits.
AddAligned(hi, lo) ==
    IF hi.e - lo.e > 60
    THEN AddMagnitudes(hi.s, ShiftLeft9(hi.m, 3), lo.s, ShiftLeft9(<<1>>, 0),
                       hi.e - 3)
    ELSE AddMagnitudes(hi.s, ShiftLeft9(hi.m, hi.e - lo.e), lo.s,
                       ShiftLeft9(lo.m, 0), lo.e)

AddFinite(a, b) == IF a.e >= b.e THEN AddAligned(a, b) ELSE AddAligned(b, a)

Add(a, b) ==
    IF IsRaised(a) \/ IsRaised(b) THEN Raised
    ELSE IF IsNaN(a) \/ IsNaN(b) THEN NaN
    ELSE IF a.k = "inf" THEN (IF b.k = "inf" /\ b.s # a.s THEN NaN ELSE a)
    ELSE IF b.k = "inf" THEN b
    ELSE IF IsZero(a) /\ IsZero(b) THEN SignedZero(IF a.s = b.s THEN a.s ELSE 0)
    ELSE IF IsZero(a) THEN b
    ELSE IF IsZero(b) THEN a
    ELSE AddFinite(a, b)

Sub(a, b) == Add(a, Neg(b))

Mul(a, b) ==
    IF IsRaised(a) \/ IsRaised(b) THEN Raised
    ELSE IF IsNaN(a) \/ IsNaN(b) THEN NaN
    ELSE IF a.k = "inf" \/ b.k = "inf"
         THEN (IF IsZero(a) \/ IsZero(b) THEN NaN ELSE Inf((a.s + b.s) % 2))
    ELSE IF IsZero(a) \/ IsZero(b) THEN SignedZero((a.s + b.s) % 2)
    ELSE RoundPack((a.s + b.s) % 2, MulLimbs(a.m, b.m), a.e + b.e)

\* One step of the long division of 53-bit integers: the remainder is
\* doubled, the divisor subtracted when it fits (ge), and the quotient
\* gains a bit.  The remainder, the divisor and the quotient are pairs of
\* a high part and 28 low bits; st is <<remainder, quotient, steps left>>
\* and th, tl the doubled remainder.
DivSubtract(st, dh, dl, th, tl, ge) ==
    <<IF ge THEN th - dh - (IF tl < dl THEN 1 ELSE 0) ELSE th,
      IF ge THEN (IF tl < dl THEN tl - dl + P2[28] ELSE tl - dl) ELSE tl,
      2 * st[3] + ((2 * st[4] + (IF ge THEN 1 ELSE 0)) \div P2[28]),
      (2 * st[4] + (IF ge THEN 1 ELSE 0)) % P2[28],
      st[5] - 1>>

DivCompare(st, dh, dl, th, tl) ==
    DivSubtract(st, dh, dl, th, tl, th > dh \/ (th = dh /\ tl >= dl))

DivStep(st, dh, dl) ==
    DivCompare(st, dh, dl, 2 * st[1] + ((2 * st[2]) \div P2[28]),
               (2 * st[2]) % P2[28])

RECURSIVE DivSteps(_, _, _)
DivSteps(st, dh, dl) ==
    IF st[5] = 0 THEN st ELSE DivSteps(DivStep(st, dh, dl), dh, dl)

\* The 57 bits of twice the quotient, with a last bit set when a remainder
\* is left, rounded.
DivRound(s, res, e) ==
    RoundPack(s,
              AddLimbs(ShiftLeft9(<<res[4] % LimbBase, res[4] \div LimbBase,
                                    res[3] % LimbBase, res[3] \div LimbBase>>, 1),
                       <<IF res[1] # 0 \/ res[2] # 0 THEN 1 ELSE 0>>, 1, 0),
              e)

\* The quotient of the 53-bit integers xh * 2^28 + xl and yh * 2^28 + yl:
\* its integer bit, then 55 more bits.
DivPairs(s, xh, xl, yh, yl, e) ==
    DivRound(s,
             DivSteps(DivSubtract(<<0, 0, 0, 0, 56>>, yh, yl, xh, xl,
                                  xh > yh \/ (xh = yh /\ xl >= yl)),
                      yh, yl),
             e)

\* x and y are the significands shifted to 53 bits.
DivAligned(s, x, y, e) ==
    DivPairs(s, x[3] + x[4] * LimbBase, x[1] + x[2] * LimbBase,
             y[3] + y[4] * LimbBase, y[1] + y[2] * LimbBase, e)

DivShifted(a, b, sa, sb) ==
    DivAligned((a.s + b.s) % 2, ShiftLeft4(a.m, sa), ShiftLeft4(b.m, sb),
               (a.e - sa) - (b.e - sb) - 56)

DivFinite(a, b) == DivShifted(a, b, 53 - BitLen(a.m), 53 - BitLen(b.m))

\* Python's "/": a zero divisor raises ZeroDivisionError.
Div(a, b) ==
    IF IsRaised(a) \/ IsRaised(b) THEN Raised
    ELSE IF IsZero(b) THEN Raised
    ELSE IF IsNaN(a) \/ IsNaN(b) THEN NaN
    ELSE IF a.k = "inf" THEN (IF b.k = "inf" THEN NaN ELSE Inf((a.s + b.s) % 2))
    ELSE IF b.k = "inf" \/ IsZero(a) THEN SignedZero((a.s + b.s) % 2)
    ELSE DivFinite(a, b)

\* A decimal literal n/d, d a power of ten: the float nearest to it.
Q(n, d) == Div(R(n), R(d))

\* -1, 0 or 1 as |a| is below, equal to or above |b|, for finite a and b.
CmpMagnitude(a, b) ==
    IF IsZero(a) /\ IsZero(b) THEN 0
    ELSE IF IsZero(a) THEN -1
    ELSE IF IsZero(b) THEN 1
    ELSE IF a.e < b.e THEN -1
    ELSE IF a.e > b.e THEN 1
    ELSE CmpLimbs(a.m, b.m, 4)

\* The sign of a float: -1, 0 or 1.
Sign(a) == IF IsZero(a) THEN 0 ELSE 1 - 2 * a.s

\* -1, 0 or 1 as a is below, equal to or above b; neither is a NaN.
Cmp(a, b) ==
    IF Sign(a) # Sign(b) THEN (IF Sign(a) < Sign(b) THEN -1 ELSE 1)
    ELSE IF Sign(a) = 0 THEN 0
    ELSE IF a.k = "inf" /\ b.k = "inf" THEN 0
    ELSE IF a.k = "inf" THEN Sign(a)
    ELSE IF b.k = "inf" THEN -Sign(a)
    ELSE Sign(a) * CmpMagnitude(a, b)

Ordered(a, b) == a.k \in {"fin", "inf"} /\ b.k \in {"fin", "inf"}

\* Python's ==, < and <= on floats: every comparison with a NaN is False.
Eq(a, b) == Ordered(a, b) /\ Cmp(a, b) = 0

Less(a, b) == Ordered(a, b) /\ Cmp(a, b) < 0

Leq(a, b) == Ordered(a, b) /\ Cmp(a, b) <= 0

NonNeg(a) == Leq(Zero, a)

Positive(a) == Less(Zero, a)

(***************************************************************************)
(* Lookup tables.                                                          *)
(***************************************************************************)
METAL_DENSITIES ==
    [m \in {"Grey Iron", "Steel", "Aluminum", "Copper", "Zinc"} |->
        CASE m = "Grey Iron" -> R(7100)
          [] m = "Steel"     -> R(7800)
          [] m = "Aluminum"  -> R(2700)
          [] m = "Copper"    -> R(8960)
          [] m = "Zinc"      -> R(7140)]

REJECTION_FACTORS ==
    [m \in {"Grey Iron", "Steel"} |->
        CASE m = "Grey Iron" ->
                [q \in {"High", "Medium", "Low"} |->
                    CASE q = "High"   -> Q(108, 100)
                      [] q = "Medium" -> Q(1035, 1000)
                      [] q = "Low"    -> Q(101, 100)]
          [] m = "Steel" ->
                [q \in {"High", "Medium", "Low"} |->
                    CASE q = "High"   -> Q(1095, 1000)
                      [] q = "Medium" -> Q(1075, 1000)
                      [] q = "Low"    -> Q(1025, 1000)]]

\* dict.get(key, default)
Get(dict, key, default) == IF key \in DOMAIN dict THEN dict[key] ELSE default

EmptyDict == [k \in {} |-> Zero]

\* Mutant: a missing entry yields 0 instead of the neutral factor.
RejectionFactorDefaultZero(metal, quality) ==
    Get(Get(REJECTION_FACTORS, metal, EmptyDict), quality, Zero)

\* REJECTION_FACTORS.get(metal, {}).get(quality, 1.0)
RejectionFactor(metal, quality) ==
    Get(Get(REJECTION_FACTORS, metal, EmptyDict), quality, R(1))

(***************************************************************************)
(* Calculators.                                                            *)
(***************************************************************************)
Mass(p) == Mul(p.density, Div(p.volume_cm3, R(1000000)))

\* Mutant: the fettling charge is also folded into the direct material cost.
DirectMaterialWithFettling(p) ==
    Add(Mul(Mul(Mul(Mass(p), p.unit_metal_cost), p.f_m), p.f_p),
        Add(Mul(p.fettling_labor_hours, p.fettling_labor_rate),
            p.fettling_equipment_cost))

\* Mutant: the mass is divided by the unit metal cost.
DirectMaterialDividingByUnitCost(p) ==
    Mul(Mul(Div(Mass(p), p.unit_metal_cost), p.f_m), p.f_p)

direct_material_cost(p) ==
    Mul(Mul(Mul(Mass(p), p.unit_metal_cost), p.f_m), p.f_p)

indirect_material_cost(p) ==
    LET mould_sand ==
            Mul(Mul(Mul(Mul(p.mold_sand_weight, p.mold_sand_cost),
                        p.sand_recycle_factor), p.f_r), p.mold_rejection_factor)
        core_sand ==
            Mul(Mul(Mul(Mul(p.core_sand_weight, p.core_sand_cost),
                        p.sand_recycle_factor), p.f_r), p.core_rejection_factor)
    IN  Add(Add(mould_sand, core_sand), p.misc_material_cost)

labour_cost(p) ==
    LET highly_qualified ==
            Div(Mul(Mul(Mul(p.design_rejection, p.salary_high_qual),
                        p.designers_count), p.design_hours), p.quantity)
        technical ==
            Div(Mul(Mul(Mul(Mul(p.f_r, p.activity_rejection), p.salary_technical),
                        p.technicians_count), p.labor_hours), p.quantity)
    IN  Add(highly_qualified, technical)

\* Mutant: the feeder allowance is left out of the holding term.
EnergyHoldingWithoutAllowance(p) ==
    LET mass == Mass(p)
        melting ==
            Div(Mul(Mul(p.energy_cost, p.melting_energy), Mul(mass, Q(13, 10))),
                R(1000))
        holding ==
            Div(Mul(Mul(Mul(p.energy_cost, p.holding_energy), p.holding_time),
                    mass), R(1000))
    IN  Add(Add(melting, holding), Mul(mass, p.other_energy_rate))

energy_cost(p) ==
    LET mass == Mass(p)
        melting ==
            Div(Mul(Mul(p.energy_cost, p.melting_energy), Mul(mass, Q(13, 10))),
                R(1000))
        holding ==
            Div(Mul(Mul(Mul(p.energy_cost, p.holding_energy), p.holding_time),
                    Mul(mass, Q(13, 10))), R(1000))
    IN  Add(Add(melting, holding), Mul(mass, p.other_energy_rate))

tooling_cost(p) ==
    LET software == Div(p.software_updates_cost, p.design_units_produced)
        consumables == Div(p.tooling_consumables_cost, p.quantity)
        maintenance == Div(p.equipment_maintenance_cost, p.quantity)
        machining == Mul(p.machining_cost_per_hour, p.machining_time)
    IN  Add(Add(Add(software, consumables), maintenance), machining)

post_casting_costs(p) ==
    ("Fettling" :> Add(Mul(p.fettling_labor_hours, p.fettling_labor_rate),
                       p.fettling_equipment_cost))
    @@ ("Heat Treatment" :>
            Add(Mul(p.heat_treatment_energy, p.energy_cost),
                Mul(p.heat_treatment_labor_hours, p.heat_treatment_labor_rate)))
    @@ ("NDT" :> p.ndt_cost_per_part)
    @@ ("Pressure Testing" :>
            Add(Mul(p.pressure_testing_labor_hours, p.pressure_testing_labor_rate),
                p.pressure_testing_equipment_cost))
    @@ ("Final Inspection" :> Mul(p.inspection_labor_hours, p.inspection_labor_rate))
    @@ ("Radiography" :> p.radiography_cost_per_part)
    @@ ("Plating" :> p.plating_cost)

\* Mutant: the percentages are applied to a base that already holds the
\* administrative overhead.
OverheadOnOverhead(p, manufacturing_cost) ==
    LET admin == Div(Mul(manufacturing_cost, p.admin_percentage), R(100))
    IN  Add(admin,
            Div(Mul(Add(manufacturing_cost, admin), p.depr_percentage), R(100)))

overhead_cost(p, manufacturing_cost) ==
    LET admin == Div(Mul(manufacturing_cost, p.admin_percentage), R(100))
        depreciation == Div(Mul(manufacturing_cost, p.depr_percentage), R(100))
    IN  Add(admin, depreciation)

\* The keys of the post-casting dict in the order the code inserts them,
\* which is the order values() yields them.
PostCastingKeys ==
    <<"Fettling", "Heat Treatment", "NDT", "Pressure Testing",
      "Final Inspection", "Radiography", "Plating">>

\* The first n values of dict added from 0, left to right.
RECURSIVE SumOver(_, _, _)
SumOver(dict, keys, n) ==
    IF n = 0 THEN Zero ELSE Add(SumOver(dict, keys, n - 1), dict[keys[n]])

\* Mutant: the sum skips the last line item of the mapping.
SumValuesSkippingPlating(dict) ==
    SumOver(dict, PostCastingKeys, Len(PostCastingKeys) - 1)

\* sum(d.values()): every value of the dict, added from 0 in insertion
\* order (the builtin of CPython 3.11 adds floats one by one).
SumValues(dict) == SumOver(dict, PostCastingKeys, Len(PostCastingKeys))

\* manufacturing_cost = material_cost + labour + energy + tooling_val + post_casting_total
ManufacturingCost(material_cost, labour, energy, tooling_val, post_casting_total) ==
    Add(Add(Add(Add(material_cost, labour), energy), tooling_val),
        post_casting_total)

\* Mutant: the total leaves the overheads out.
TotalCostWithoutOverheads(manufacturing_cost, overheads) == manufacturing_cost

\* total_cost = manufacturing_cost + overheads
TotalCost(manufacturing_cost, overheads) == Add(manufacturing_cost, overheads)

\* profit_loss = params['quote'] - total_cost
ProfitLoss(quote, total_cost) == Sub(quote, total_cost)

\* Mutant: the percentage is computed without testing the quote.
ProfitLossPercentUnguarded(profit_loss, quote) ==
    Mul(Div(profit_loss, quote), R(100))

\* (profit_loss / params['quote'] * 100) if params['quote'] else 0
\* A float is false exactly when it is 0.0 or -0.0.
ProfitLossPercent(profit_loss, quote) ==
    IF ~IsZero(quote) THEN Mul(Div(profit_loss, quote), R(100)) ELSE Zero

NoResult ==
    [exception |-> "none", returned |-> FALSE,
     cost_breakdown |-> EmptyDict, post_casting |-> EmptyDict,
     profit_loss |-> Raised, profit_loss_percent |-> Raised]

\* The end of total_costs, given the amounts computed before it: the
\* overheads, the total, the profit or loss and the returned breakdown.  A ZeroDivisionError raised by any calculator
\* reaches the total; one raised by the percentage is its own.
Breakdown(p, direct_mat, indirect_mat, labour, energy, tooling_val, post_casting, post_casting_total, manufacturing_cost) ==
    LET overheads == overhead_cost(p, manufacturing_cost)
        total_cost == TotalCost(manufacturing_cost, overheads)
        profit_loss == ProfitLoss(p.quote, total_cost)
        profit_loss_percent == ProfitLossPercent(profit_loss, p.quote)
    IN  IF IsRaised(total_cost) \/ IsRaised(profit_loss_percent)
        THEN [NoResult EXCEPT !.exception = "ZeroDivisionError"]
        ELSE [exception |-> "none", returned |-> TRUE,
              cost_breakdown |->
                  ("Direct Material" :> direct_mat)
                  @@ ("Indirect Material" :> indirect_mat)
                  @@ ("Labour" :> labour)
                  @@ ("Energy" :> energy)
                  @@ ("Tooling" :> tooling_val)
                  @@ ("Post Casting" :> post_casting_total)
                  @@ ("Overheads" :> overheads)
                  @@ ("Total" :> total_cost)
                  @@ ("Profit/Loss" :> profit_loss),
              post_casting |-> post_casting,
              profit_loss |-> profit_loss,
              profit_loss_percent |-> profit_loss_percent]

\* material_cost and manufacturing_cost, given the results of the six
\* calculators and the post-casting total.
Subtotals(p, direct_mat, indirect_mat, labour, energy, tooling_val, post_casting, post_casting_total) ==
    Breakdown(p, direct_mat, indirect_mat, labour, energy, tooling_val,
              post_casting, post_casting_total,
              ManufacturingCost(Add(direct_mat, indirect_mat), labour, energy,
                                tooling_val, post_casting_total))

\* post_casting_total, given the results of the six calculators.
CalculatorResults(p, direct_mat, indirect_mat, labour, energy, tooling_val, post_casting) ==
    Subtotals(p, direct_mat, indirect_mat, labour, energy, tooling_val,
              post_casting, SumValues(post_casting))

total_costs(p) ==
    CalculatorResults(p, direct_material_cost(p), indirect_material_cost(p),
                      labour_cost(p), energy_cost(p), tooling_cost(p),
                      post_casting_costs(p))

(***************************************************************************)
(* The caller: main assembles the parameter record from the widgets,       *)
(* resolves the rejection factor from the metal and the quality level,     *)
(* keeps the density of the session in step, and calls total_costs when    *)
(* the button is pressed.                                                  *)
(***************************************************************************)
Metals == DOMAIN METAL_DENSITIES

QualityLevels == {"High", "Medium", "Low"}

\* A quality level outside the table, to exercise the lookup's default.
Qualities == QualityLevels \cup {"Unlisted"}

NumericKeys == {<<"Grey Iron", "Medium">>, <<"Aluminum", "High">>}

LookupKeys == Metals \X Qualities

\* 2.0 ** 1000, about 1.07e301: a value whose products overflow.
Huge == RoundPack(0, <<1, 0, 0, 0>>, 1000)

\* 1e12: a line item beside which a small direct material cost is lost.
Trillion == Mul(R(1000000), R(1000000))

\* 1356.9486: the quote that meets the total of BaseForm without
\* administrative overhead.
BreakEvenQuote == Q(13569486, 10000)

QuoteValues == {R(0), R(1000)}

VolumeValues == {R(0), R(1), R(500000), Huge}

DensityValues == {R(0), R(1), R(4), Huge}

UnitCostValues == {R(i) : i \in 0..MaxUnitCost}

DivisorValues == {R(i) : i \in -1..MaxQuantity}

PercentageValues == {R(0), R(10)}

DepreciationValues == {R(0), R(20)}

HoldingTimeValues == {R(0), R(2)}

PlatingValues == {R(0), R(45), Trillion}

\* The inputs held fixed across the explored records.  The widgets return
\* ints for quantity, design_units_produced, designers_count,
\* technicians_count, shape and accuracy; the code only multiplies them
\* with or divides them into floats, which converts them to the floats
\* written here.
BaseForm ==
    [quote |-> R(1000), metal |-> "Grey Iron", quality |-> "Medium",
     volume_cm3 |-> R(500000), density |-> R(4), unit_metal_cost |-> R(1),
     quantity |-> R(2), shape |-> R(30), accuracy |-> R(35),
     furnace |-> "Cupola",
     design_units_produced |-> R(2),
     f_m |-> Q(21, 20), f_p |-> Q(51, 50),
     f_y |-> Q(76, 100), f_eta |-> Q(325, 100),
     designers_count |-> R(2), design_hours |-> R(5),
     salary_high_qual |-> R(60), design_rejection |-> Q(11, 10),
     technicians_count |-> R(3), labor_hours |-> R(8),
     salary_technical |-> R(25), activity_rejection |-> R(1),
     mold_sand_weight |-> R(5), mold_sand_cost |-> R(2),
     core_sand_weight |-> R(1), core_sand_cost |-> R(2),
     sand_recycle_factor |-> Q(1, 2), misc_material_cost |-> R(1),
     mold_rejection_factor |-> Q(6, 5), core_rejection_factor |-> Q(11, 10),
     energy_cost |-> R(2), melting_energy |-> R(1000),
     holding_energy |-> R(250), holding_time |-> R(2),
     other_energy_rate |-> Q(1, 2),
     software_updates_cost |-> R(100), tooling_consumables_cost |-> R(20),
     equipment_maintenance_cost |-> R(10),
     machining_cost_per_hour |-> R(40), machining_time |-> R(2),
     admin_percentage |-> R(10), depr_percentage |-> R(20),
     fettling_labor_hours |-> R(1), fettling_labor_rate |-> R(25),
     fettling_equipment_cost |-> R(5),
     heat_treatment_energy |-> R(50), heat_treatment_labor_rate |-> R(30),
     heat_treatment_labor_hours |-> R(1),
     ndt_cost_per_part |-> R(15),
     inspection_labor_hours |-> R(1), inspection_labor_rate |-> R(26),
     pressure_testing_labor_hours |-> R(1), pressure_testing_labor_rate |-> R(35),
     pressure_testing_equipment_cost |-> R(20),
     radiography_cost_per_part |-> R(25), plating_cost |-> R(45)]

\* Records that vary the amortizing divisors, also below the minimum of 1
\* the widgets enforce: total_costs takes any record.
DivisorForms ==
    {[BaseForm EXCEPT !.metal = k[1], !.quality = k[2], !.quote = qu,
                      !.quantity = qt, !.design_units_produced = du,
                      !.admin_percentage = ad] :
        k \in NumericKeys, qu \in QuoteValues, qt \in DivisorValues,
        du \in DivisorValues, ad \in PercentageValues}

\* Records that vary the mass and the unit metal cost, from zero mass to a
\* mass that overflows, beside a small and a very large line item.
MassForms ==
    {[BaseForm EXCEPT !.quote = qu, !.volume_cm3 = v, !.density = de,
                      !.unit_metal_cost = c, !.plating_cost = pl] :
        qu \in QuoteValues, v \in VolumeValues, de \in DensityValues,
        c \in UnitCostValues, pl \in PlatingValues}

\* Records that vary the overhead percentages, the holding time and the
\* quote, the break-even quote included.
OverheadForms ==
    {[BaseForm EXCEPT !.quote = qu, !.unit_metal_cost = c,
                      !.admin_percentage = ad, !.depr_percentage = dp,
                      !.holding_time = ht, !.plating_cost = pl] :
        qu \in QuoteValues \cup {BreakEvenQuote}, c \in UnitCostValues,
        ad \in PercentageValues, dp \in DepreciationValues,
        ht \in HoldingTimeValues, pl \in PlatingValues}

LookupForms ==
    {[BaseForm EXCEPT !.metal = k[1], !.quality = k[2], !.quantity = qt] :
        k \in LookupKeys, qt \in DivisorValues}

Forms == DivisorForms \cup MassForms \cup OverheadForms \cup LookupForms

\* The keys of the parameter record: the quality level is a local of the caller.
ParamKeys == (DOMAIN BaseForm \ {"quality"}) \cup {"f_r"}

AssembleParams(f) ==
    [k \in ParamKeys |->
        IF k = "f_r" THEN RejectionFactor(f.metal, f.quality) ELSE f[k]]

NoParams == [k \in {} |-> Zero]

\* st.session_state of a new session: no key is set.
NoSession == [k \in {} |-> Zero]

\* if 'density' not in st.session_state: ...; if 'prev_metal' not in ...
InitializeSession(ss) ==
    LET s1 == IF "density" \notin DOMAIN ss
              THEN ("density" :> METAL_DENSITIES["Grey Iron"]) @@ ss
              ELSE ss
    IN  IF "prev_metal" \notin DOMAIN s1
        THEN ("prev_metal" :> "Grey Iron") @@ s1
        ELSE s1

\* Mutant: a change of metal is recorded but the density is not reset.
SyncMetalWithoutReset(ss, metal) ==
    IF ss["prev_metal"] # metal
    THEN [ss EXCEPT !["prev_metal"] = metal]
    ELSE ss

\* if st.session_state.prev_metal != params['metal']: ...
SyncMetal(ss, metal) ==
    IF ss["prev_metal"] # metal
    THEN [ss EXCEPT !["density"] = METAL_DENSITIES[metal],
                    !["prev_metal"] = metal]
    ELSE ss

\* st.session_state.density = params['density']
StoreDensity(ss, density) == [ss EXCEPT !["density"] = density]

\* The default main offers in the density input when the metal selected is
\* metal: value=float(st.session_state.density) after the initialisation
\* and the reset on a change of metal.
OfferedDensity(ss, metal) == SyncMetal(InitializeSession(ss), metal)["density"]

\* One run of main in which the widgets return the values of f: the session
\* state is initialised, reset on a change of metal and given the density
\* entered; total_costs is called when the button is pressed.
RunMain(f, button) ==
    LET ss0 == InitializeSession(session_state)
        ss1 == SyncMetal(ss0, f.metal)
    IN  /\ stored_before' = ss0
        /\ density_default' = ss1["density"]
        /\ session_state' = StoreDensity(ss1, f.density)
        /\ form' = f
        /\ params' = AssembleParams(f)
        /\ result' = IF button THEN total_costs(params') ELSE NoResult

Init ==
    /\ form \in Forms
    /\ params = NoParams
    /\ result = NoResult
    /\ session_state = NoSession
    /\ density_default = Zero
    /\ stored_before = NoSession

\* The first run of a session, with the values of form entered and the
\* button pressed.
Calculate ==
    /\ params = NoParams
    /\ RunMain(form, TRUE)

Next == Calculate

Spec == Init /\ [][Next]_vars

\* total_costs has been called by the last run: it returned or it raised.
Done == result # NoResult

(***************************************************************************)
(* The page: every interaction reruns main from the top with the session   *)
(* state the previous run left.                                            *)
(***************************************************************************)
\* Densities a user types into the density input (min_value=0.0).
DensityEdits == {R(5000)}

\* The values the other widgets return in the explored runs.
UIForm == [BaseForm EXCEPT !.volume_cm3 = R(1000)]

InitUI ==
    /\ form = NoParams
    /\ params = NoParams
    /\ result = NoResult
    /\ session_state = NoSession
    /\ density_default = Zero
    /\ stored_before = NoSession

\* One run of main: the metal and the quality level selected, the density
\* input left at its default or edited, the button pressed or not.
Rerun(metal, quality, edited, typed, button) ==
    LET density == IF edited THEN typed ELSE OfferedDensity(session_state, metal)
    IN  RunMain([UIForm EXCEPT !.metal = metal, !.quality = quality,
                               !.density = density], button)

NextUI ==
    \E metal \in Metals, edited \in BOOLEAN, typed \in DensityEdits,
       button \in BOOLEAN :
        Rerun(metal, UIForm.quality, edited, typed, button)

SpecUI == InitUI /\ [][NextUI]_vars

(***************************************************************************)
(* Properties.                                                             *)
(***************************************************************************)
NumericParamKeys == ParamKeys \ {"metal", "furnace"}

\* Every numeric input is non-negative and both amortizing divisors are positive.
ValidParams(p) ==
    /\ \A k \in NumericParamKeys : NonNeg(p[k])
    /\ Positive(p.quantity)
    /\ Positive(p.design_units_produced)

Returned == Done /\ result.returned

SevenCategories ==
    {"Direct Material", "Indirect Material", "Labour", "Energy", "Tooling",
     "Post Casting", "Overheads"}

SevenLineItems ==
    {"Fettling", "Heat Treatment", "NDT", "Pressure Testing",
     "Final Inspection", "Radiography", "Plating"}

Magnitude(a) == [a EXCEPT !.s = 0]

RelativeTolerance == Q(1, 1000000000)

\* math.isclose(a, b, rel_tol=1e-9)
IsClose(a, b) ==
    \/ Eq(a, b)
    \/ /\ IsFinite(a) /\ IsFinite(b)
       /\ LET diff == Magnitude(Sub(b, a))
          IN  \/ Leq(diff, Magnitude(Mul(RelativeTolerance, b)))
              \/ Leq(diff, Magnitude(Mul(RelativeTolerance, a)))

\* Two expressions that group the same operations differently agree: they
\* are the same float, or floats within the relative tolerance 1e-9.
Agree(a, b) == a = b \/ IsClose(a, b)

\* No amount of the breakdown r is a NaN.
NoNaN(r) == \A k \in DOMAIN r.cost_breakdown : ~IsNaN(r.cost_breakdown[k])

\* C1: for a valid parameter record, 'Total' is the sum of the seven
\* entries Direct Material, Indirect Material, Labour, Energy, Tooling,
\* Post Casting and Overheads, added in that order; 'Profit/Loss' is an
\* entry of the breakdown that is not part of that sum.
C1_TotalIsSumOfSevenCategories ==
    (Done /\ ValidParams(params)) =>
        LET cb == result.cost_breakdown
        IN  /\ result.returned
            /\ DOMAIN cb = SevenCategories \cup {"Total", "Profit/Loss"}
            /\ cb["Total"] =
                   Add(Add(Add(Add(Add(Add(cb["Direct Material"],
                                           cb["Indirect Material"]),
                                       cb["Labour"]), cb["Energy"]),
                               cb["Tooling"]), cb["Post Casting"]),
                       cb["Overheads"])

C1_Witness ==
    /\ Returned
    /\ ValidParams(params)
    /\ \A k \in SevenCategories : Positive(result.cost_breakdown[k])
    /\ IsFinite(result.cost_breakdown["Total"])
    /\ ~IsZero(result.cost_breakdown["Profit/Loss"])

\* C2: when quantity or design_units_produced is zero or negative,
\* total_costs signals InvalidInput before any division and returns no
\* breakdown.
C2_NonPositiveDivisorIsInvalidInput ==
    (Done /\ (~Positive(params.quantity) \/ ~Positive(params.design_units_produced)))
        => (result.exception = "InvalidInput" /\ ~result.returned)

\* C3: the 'Post Casting' entry is the sum of exactly the seven entries of
\* the post-casting mapping returned with it, added from 0 in the order
\* Fettling, Heat Treatment, NDT, Pressure Testing, Final Inspection,
\* Radiography, Plating.
C3_PostCastingIsSumOfSevenLineItems ==
    Returned =>
        LET pc == result.post_casting
        IN  /\ DOMAIN pc = SevenLineItems
            /\ result.cost_breakdown["Post Casting"] =
                   Add(Add(Add(Add(Add(Add(Add(Zero, pc["Fettling"]),
                                           pc["Heat Treatment"]),
                                       pc["NDT"]), pc["Pressure Testing"]),
                               pc["Final Inspection"]), pc["Radiography"]),
                       pc["Plating"])

C3_Witness ==
    /\ Returned
    /\ \A k \in SevenLineItems : Positive(result.post_casting[k])
    /\ Cardinality({result.post_casting[k] : k \in SevenLineItems}) = 7

\* The records that differ from p only in a larger unit_metal_cost.
WithLargerUnitCost(p) ==
    {[p EXCEPT !.unit_metal_cost = c] :
        c \in {x \in UnitCostValues : Less(p.unit_metal_cost, x)}}

\* C4 as stated: of two valid records that differ only in unit_metal_cost,
\* the one with the larger unit_metal_cost has a strictly larger
\* 'Direct Material' and a strictly larger 'Total', also when volume_cm3 or
\* density is 0.
C4_StrictlyMonotoneEvenAtZeroMass ==
    (Returned /\ ValidParams(params)) =>
        \A p2 \in WithLargerUnitCost(params) :
            LET cb == result.cost_breakdown
                r2 == total_costs(p2)
            IN  /\ r2.returned
                /\ Less(cb["Direct Material"], r2.cost_breakdown["Direct Material"])
                /\ Less(cb["Total"], r2.cost_breakdown["Total"])

\* C4 as amended: of two valid records that differ only in unit_metal_cost
\* and whose amounts are free of NaN, the one with the larger
\* unit_metal_cost never has a smaller 'Direct Material' or 'Total'; both
\* amounts are unchanged when volume_cm3 or density is 0.
C4_MonotoneAndUnchangedAtZeroMass ==
    (Returned /\ ValidParams(params)) =>
        \A p2 \in WithLargerUnitCost(params) :
            LET cb == result.cost_breakdown
                r2 == total_costs(p2)
            IN  /\ r2.returned
                /\ (NoNaN(result) /\ NoNaN(r2)) =>
                       /\ Leq(cb["Direct Material"],
                              r2.cost_breakdown["Direct Material"])
                       /\ Leq(cb["Total"], r2.cost_breakdown["Total"])
                /\ (IsZero(params.density) \/ IsZero(params.volume_cm3)) =>
                       /\ IsZero(cb["Direct Material"])
                       /\ IsZero(r2.cost_breakdown["Direct Material"])
                       /\ r2.cost_breakdown["Total"] = cb["Total"]

\* A record of positive mass whose amounts both grow with the unit cost.
C4_Witness ==
    /\ Returned
    /\ ValidParams(params)
    /\ Positive(params.density) /\ Positive(params.volume_cm3)
    /\ NoNaN(result)
    /\ \E p2 \in WithLargerUnitCost(params) :
           LET r2 == total_costs(p2)
           IN  /\ NoNaN(r2)
               /\ Less(result.cost_breakdown["Direct Material"],
                       r2.cost_breakdown["Direct Material"])
               /\ Less(result.cost_breakdown["Total"], r2.cost_breakdown["Total"])

\* C5: for a valid parameter record every leaf cost category (the seven
\* categories of the breakdown and the seven post-casting line items) is
\* non-negative.
C5_LeafCategoriesNonNegative ==
    (Done /\ ValidParams(params)) =>
        /\ result.returned
        /\ \A k \in SevenCategories : NonNeg(result.cost_breakdown[k])
        /\ \A k \in SevenLineItems : NonNeg(result.post_casting[k])

\* C6: 'Overheads' is admin_percentage and depr_percentage per cent of the
\* manufacturing cost, the sum of Direct Material, Indirect Material,
\* Labour, Energy, Tooling and Post Casting; the overhead is not part of
\* its own base.  It is the float the code's expression
\* base*admin_percentage/100 + base*depr_percentage/100 yields, and agrees
\* with (admin_percentage + depr_percentage)/100 * base.
C6_OverheadsArePercentageOfManufacturingCost ==
    Returned =>
        LET cb == result.cost_breakdown
            base == Add(Add(Add(Add(Add(cb["Direct Material"],
                                        cb["Indirect Material"]),
                                    cb["Labour"]), cb["Energy"]),
                            cb["Tooling"]), cb["Post Casting"])
        IN  /\ cb["Overheads"] =
                   Add(Div(Mul(base, params.admin_percentage), R(100)),
                       Div(Mul(base, params.depr_percentage), R(100)))
            /\ Agree(cb["Overheads"],
                     Mul(Div(Add(params.admin_percentage, params.depr_percentage),
                             R(100)), base))

C6_Witness ==
    /\ Returned
    /\ Positive(params.admin_percentage)
    /\ Positive(params.depr_percentage)
    /\ IsFinite(result.cost_breakdown["Overheads"])
    /\ Positive(result.cost_breakdown["Overheads"])
    /\ Positive(result.cost_breakdown["Post Casting"])

\* C7: profit_loss is quote - Total; profit_loss_percent agrees with
\* 100 * profit_loss / quote when quote is non-zero, and is 0, with no
\* division and no error, when quote is 0.
C7_ProfitLossAndGuardedPercent ==
    (Done /\ Positive(params.quantity) /\ Positive(params.design_units_produced)) =>
        /\ result.returned
        /\ result.exception = "none"
        /\ result.profit_loss = Sub(params.quote, result.cost_breakdown["Total"])
        /\ result.cost_breakdown["Profit/Loss"] = result.profit_loss
        /\ (~IsZero(params.quote)) =>
               Agree(result.profit_loss_percent,
                     Div(Mul(R(100), result.profit_loss), params.quote))
        /\ IsZero(params.quote) => result.profit_loss_percent = Zero

C7_Witness ==
    /\ Returned
    /\ IsZero(params.quote)
    /\ result.exception = "none"
    /\ Less(result.profit_loss, Zero)
    /\ result.profit_loss_percent = Zero

\* C8: the rejection-factor lookup returns the table value for a
\* (metal, quality) pair of REJECTION_FACTORS and 1.0, without an error, for
\* a metal with no table entry or a quality level missing for a listed
\* metal.
C8_RejectionFactorLookup ==
    Done =>
        /\ (form.metal = "Grey Iron" /\ form.quality = "High")
              => params.f_r = Q(108, 100)
        /\ (form.metal = "Grey Iron" /\ form.quality = "Medium")
              => params.f_r = Q(1035, 1000)
        /\ (form.metal = "Grey Iron" /\ form.quality = "Low")
              => params.f_r = Q(101, 100)
        /\ (form.metal = "Steel" /\ form.quality = "High")
              => params.f_r = Q(1095, 1000)
        /\ (form.metal = "Steel" /\ form.quality = "Medium")
              => params.f_r = Q(1075, 1000)
        /\ (form.metal = "Steel" /\ form.quality = "Low")
              => params.f_r = Q(1025, 1000)
        /\ (form.metal \in {"Aluminum", "Copper", "Zinc"}
                \/ form.quality \notin QualityLevels)
              => params.f_r = R(1)

C8_Witness ==
    /\ Done
    /\ form.metal = "Steel"
    /\ form.quality = "Unlisted"
    /\ params.f_r = R(1)
    /\ result.returned

\* C9: 'Energy' is
\* energy_cost*melting_energy*(mass*1.3)/1000
\*   + energy_cost*holding_energy*holding_time*(mass*1.3)/1000
\*   + mass*other_energy_rate,
\* with mass = density*(volume_cm3/1e6) as in Direct Material: the 1.3
\* allowance multiplies the mass of the melting and of the holding term and
\* not the other_energy_rate term.
C9_EnergyFormula ==
    Returned =>
        LET mass == Mul(params.density, Div(params.volume_cm3, R(1000000)))
            allowance == Mul(mass, Q(13, 10))
            melting ==
                Div(Mul(Mul(params.energy_cost, params.melting_energy), allowance),
                    R(1000))
            holding ==
                Div(Mul(Mul(Mul(params.energy_cost, params.holding_energy),
                            params.holding_time), allowance), R(1000))
            other == Mul(mass, params.other_energy_rate)
        IN  /\ result.cost_breakdown["Energy"] = Add(Add(melting, holding), other)
            /\ result.cost_breakdown["Direct Material"] =
                   Mul(Mul(Mul(mass, params.unit_metal_cost), params.f_m),
                       params.f_p)

C9_Witness ==
    /\ Returned
    /\ Positive(params.density) /\ Positive(params.volume_cm3)
    /\ Positive(params.holding_time)
    /\ Positive(params.other_energy_rate)
    /\ IsFinite(result.cost_breakdown["Energy"])
    /\ Positive(result.cost_breakdown["Energy"])

FettlingKeys ==
    {"fettling_labor_hours", "fettling_labor_rate", "fettling_equipment_cost"}

FettlingValues == {R(0), R(3)}

\* The records that differ from p only in one fettling parameter.
WithOtherFettling(p) ==
    {[p EXCEPT ![k] = v] : k \in FettlingKeys, v \in FettlingValues}

\* C10: 'Direct Material' is density*(volume_cm3/1e6)*unit_metal_cost
\* *f_m*f_p with no fettling multiplier; fettling is charged once, in the
\* 'Fettling' line item, and no fettling parameter influences
\* 'Direct Material' or any category other than 'Post Casting'.
C10_DirectMaterialHasNoFettling ==
    Returned =>
        LET cb == result.cost_breakdown
        IN  /\ cb["Direct Material"] =
                   Mul(Mul(Mul(Mul(params.density,
                                   Div(params.volume_cm3, R(1000000))),
                               params.unit_metal_cost), params.f_m), params.f_p)
            /\ result.post_casting["Fettling"] =
                   Add(Mul(params.fettling_labor_hours, params.fettling_labor_rate),
                       params.fettling_equipment_cost)
            /\ \A p2 \in WithOtherFettling(params) :
                   \A r2 \in {total_costs(p2)} :
                       /\ r2.cost_breakdown["Direct Material"] = cb["Direct Material"]
                       /\ \A k \in {"Indirect Material", "Labour", "Energy",
                                     "Tooling"} :
                              r2.cost_breakdown[k] = cb[k]
                       /\ \A k \in SevenLineItems \ {"Fettling"} :
                              r2.post_casting[k] = result.post_casting[k]
                       /\ r2.post_casting["Fettling"] =
                              Add(Mul(p2.fettling_labor_hours, p2.fettling_labor_rate),
                                  p2.fettling_equipment_cost)

C10_Witness ==
    /\ Returned
    /\ IsFinite(result.cost_breakdown["Direct Material"])
    /\ Positive(result.cost_breakdown["Direct Material"])
    /\ Positive(result.post_casting["Fettling"])
    /\ \E p2 \in WithOtherFettling(params) :
           total_costs(p2).post_casting["Fettling"] # result.post_casting["Fettling"]

\* C11: over any sequence of reruns, a run whose selected metal differs from
\* the stored prev_metal offers METAL_DENSITIES[selected metal] as the
\* default of the density input, whatever density was stored; a run whose
\* metal is unchanged offers the density stored at the end of the previous
\* run; and every run ends with prev_metal equal to the metal it selected.
\* (The first run of a session finds prev_metal "Grey Iron" and the density
\* of Grey Iron set by the initialisation.)
C11_DensityDefaultFollowsMetal ==
    [][LET metal == params'.metal
           first == session_state = NoSession
           prev_metal == IF first THEN "Grey Iron" ELSE session_state["prev_metal"]
           stored == IF first THEN R(7100) ELSE session_state["density"]
       IN  /\ (metal # prev_metal) =>
                  density_default' =
                      CASE metal = "Grey Iron" -> R(7100)
                        [] metal = "Steel"     -> R(7800)
                        [] metal = "Aluminum"  -> R(2700)
                        [] metal = "Copper"    -> R(8960)
                        [] metal = "Zinc"      -> R(7140)
           /\ (metal = prev_metal) => density_default' = stored
           /\ session_state'["prev_metal"] = metal
           /\ session_state'["density"] = params'.density]_vars

\* A run that follows an edited density and selects another metal.
C11_Witness ==
    /\ params # NoParams
    /\ stored_before # NoSession
    /\ stored_before["prev_metal"] # params.metal
    /\ stored_before["density"] \in DensityEdits
    /\ density_default = METAL_DENSITIES[params.metal]
    /\ density_default # stored_before["density"]
    /\ session_state["prev_metal"] = params.metal

====
